---------------------------- MODULE Spec2Model ----------------------------
(***************************************************************************)
(* A model of disgomux (src/disgomux.go): the Mux object, its              *)
(* configuration and registration methods, and Mux.Handle, the dispatcher  *)
(* wired to the chat client's message event.                               *)
(*                                                                         *)
(* Go strings are sequences of one-character strings, so that HasPrefix,   *)
(* Split, the [1:] slice and ToLower are computed as the code computes     *)
(* them.  The chat client is the environment: it supplies the messages,    *)
(* the result a member lookup would give, and records what the dispatcher  *)
(* asks of it in the log of the current call.                              *)
(***************************************************************************)
EXTENDS Naturals, Sequences, FiniteSets

VARIABLES
    muxState,        \* "none": New not called; "ok": New returned a Mux; "err": New failed; "crashed": run-time panic
    Prefix,          \* Mux.Prefix
    Commands,        \* Mux.Commands: map from name to Command
    SimpleCommands,  \* Mux.SimpleCommands: map from name to SimpleCommand
    Middleware,      \* Mux.Middleware: slice of middlewares
    options,         \* Mux.options
    fuzzyMatch,      \* Mux.fuzzyMatch
    commandNames,    \* Mux.commandNames
    errorTexts,      \* Mux.errorTexts
    running,         \* handler goroutines in progress, counted per command name
    call             \* the method call that returned last: its arguments and what it did

vars == <<muxState, Prefix, Commands, SimpleCommands, Middleware, options,
          fuzzyMatch, commandNames, errorTexts, running, call>>

config == <<Prefix, Commands, SimpleCommands, Middleware, options,
            fuzzyMatch, commandNames, errorTexts>>

(***************************************************************************)
(* Bounds of the model.                                                    *)
(***************************************************************************)
MaxArgs == 2          \* commands passed to one variadic Register / RegisterSimple call
MaxMiddleware == 2    \* UseMiddleware calls
MaxRunning == 2       \* handler goroutines in progress at once
MaxCandidates == 3    \* entries of commandNames

(***************************************************************************)
(* Strings.                                                                *)
(***************************************************************************)
EmptyStr == <<>>

\* unicode lower-casing of one character, over the model's alphabet
LowerChar(c) == IF c = "A" THEN "a" ELSE IF c = "B" THEN "b" ELSE c

\* strings.ToLower
ToLower(s) == [i \in 1..Len(s) |-> LowerChar(s[i])]

\* strings.HasPrefix
HasPrefix(s, p) == Len(p) <= Len(s) /\ SubSeq(s, 1, Len(p)) = p

\* strings.Split(s, " "): the pieces between single spaces; Split("") is [""]
RECURSIVE SplitFrom(_, _, _)
SplitFrom(s, i, cur) ==
    IF i > Len(s) THEN <<cur>>
    ELSE IF s[i] = " " THEN <<cur>> \o SplitFrom(s, i + 1, <<>>)
    ELSE SplitFrom(s, i + 1, Append(cur, s[i]))

Split(s) == SplitFrom(s, 1, <<>>)

\* s[1:] panics (slice bounds out of range) when len(s) < 1
SliceFrom1Panics(s) == Len(s) < 1

SliceFrom1(s) == SubSeq(s, 2, Len(s))

(***************************************************************************)
(* The values the environment and the caller draw from.                    *)
(***************************************************************************)
SelfID == "bot"

UserPool == {"u1", "u2"}

Prefixes == {EmptyStr, <<"!">>, <<"!", "!">>}

AllOptions == [IgnoreBots : BOOLEAN, IgnoreDMs : BOOLEAN,
               IgnoreEmpty : BOOLEAN, IgnoreNonDefault : BOOLEAN]

PermPool == [UserIDs : {{}, {"u1"}}, RoleIDs : {{}, {"r1"}}, ChanIDs : {{}, {"c1"}}]

Public == [UserIDs |-> {}, RoleIDs |-> {}, ChanIDs |-> {}]

RoleOnly == [UserIDs |-> {}, RoleIDs |-> {"r1"}, ChanIDs |-> {}]

\* a Command: what Settings().Command and Permissions() return
Cmd(n, p) == [name |-> n, perms |-> p]

\* a SimpleCommand
Simple(n, c) == [Command |-> n, Content |-> c]

NameA == <<"a">>

NameUpperA == <<"A">>

DefaultErrorTexts ==
    [CommandNotFound |-> <<"Command not found.">>,
     NoPermissions |-> <<"You do not have permission to use that command.">>]

CustomErrorTexts ==
    [CommandNotFound |-> <<"custom: no such command">>,
     NoPermissions |-> <<"custom: denied">>]

DefaultOptions ==
    [IgnoreBots |-> TRUE, IgnoreDMs |-> TRUE, IgnoreEmpty |-> TRUE, IgnoreNonDefault |-> TRUE]

\* the empty map
EmptyMap == [n \in {} |-> {}]

NoCall == [op |-> "none"]

NoRunning == [n \in {} |-> 0]

(***************************************************************************)
(* Initial state: no Mux yet.                                              *)
(***************************************************************************)
Init ==
    /\ muxState = "none"
    /\ Prefix = EmptyStr
    /\ Commands = EmptyMap
    /\ SimpleCommands = EmptyMap
    /\ Middleware = <<>>
    /\ options = DefaultOptions
    /\ fuzzyMatch = FALSE
    /\ commandNames = <<>>
    /\ errorTexts = DefaultErrorTexts
    /\ running = NoRunning
    /\ call = NoCall

\* the caller is between calls on a Mux that New returned without error
Ready == muxState = "ok" /\ call.op = "none"

(***************************************************************************)
(* New                                                                     *)
(***************************************************************************)
NewFails(prefix) == Len(prefix) > 1

New(prefix) ==
    /\ muxState = "none"
    /\ call.op = "none"
    /\ IF NewFails(prefix)
       THEN /\ muxState' = "err"
            /\ Prefix' = EmptyStr
       ELSE /\ muxState' = "ok"
            /\ Prefix' = prefix
    /\ call' = [op |-> "New", prefix |-> prefix]
    /\ UNCHANGED <<Commands, SimpleCommands, Middleware, options, fuzzyMatch,
                   commandNames, errorTexts, running>>

(***************************************************************************)
(* Options, UseMiddleware, SetErrors                                       *)
(***************************************************************************)
Options(opt) ==
    /\ Ready
    /\ options' = opt
    /\ UNCHANGED <<muxState, Prefix, Commands, SimpleCommands, Middleware,
                   fuzzyMatch, commandNames, errorTexts, running, call>>

UseMiddleware(mw) ==
    /\ Ready
    /\ Len(Middleware) < MaxMiddleware
    /\ Middleware' = Append(Middleware, mw)
    /\ UNCHANGED <<muxState, Prefix, Commands, SimpleCommands, options,
                   fuzzyMatch, commandNames, errorTexts, running, call>>

SetErrors(texts) ==
    /\ Ready
    /\ errorTexts' = texts
    /\ UNCHANGED <<muxState, Prefix, Commands, SimpleCommands, Middleware, options,
                   fuzzyMatch, commandNames, running, call>>

(***************************************************************************)
(* Register, RegisterSimple                                                *)
(***************************************************************************)
\* m[k] = v on a Go map
MapPut(m, k, v) == [n \in DOMAIN m \cup {k} |-> IF n = k THEN v ELSE m[n]]

\* mutant: a name already registered keeps its first command
RegisterOneKeepFirst(m, c) ==
    IF Len(c.name) # 0 /\ c.name \notin DOMAIN m THEN MapPut(m, c.name, c) ELSE m

\* one iteration of Register's loop
RegisterOne(m, c) == IF Len(c.name) # 0 THEN MapPut(m, c.name, c) ELSE m

RECURSIVE RegisterAll(_, _)
RegisterAll(m, cs) ==
    IF cs = <<>> THEN m ELSE RegisterAll(RegisterOne(m, Head(cs)), Tail(cs))

\* mutant: with fuzzy mode on, Register keeps the candidate list up to date
RegisterLive(cs) ==
    /\ Ready
    /\ Commands' = RegisterAll(Commands, cs)
    /\ commandNames' =
          IF fuzzyMatch
          THEN commandNames \o SelectSeq([i \in DOMAIN cs |-> cs[i].name],
                                         LAMBDA n : Len(n) # 0 /\ n \notin DOMAIN Commands)
          ELSE commandNames
    /\ call' = [op |-> "Register", args |-> cs]
    /\ UNCHANGED <<muxState, Prefix, SimpleCommands, Middleware, options,
                   fuzzyMatch, errorTexts, running>>

Register(cs) ==
    /\ Ready
    /\ Commands' = RegisterAll(Commands, cs)
    /\ call' = [op |-> "Register", args |-> cs]
    /\ UNCHANGED <<muxState, Prefix, SimpleCommands, Middleware, options,
                   fuzzyMatch, commandNames, errorTexts, running>>

\* one iteration of RegisterSimple's loop
RegisterSimpleOne(m, c) == IF Len(c.Command) # 0 THEN MapPut(m, c.Command, c) ELSE m

RECURSIVE RegisterSimpleAll(_, _)
RegisterSimpleAll(m, cs) ==
    IF cs = <<>> THEN m ELSE RegisterSimpleAll(RegisterSimpleOne(m, Head(cs)), Tail(cs))

RegisterSimple(cs) ==
    /\ Ready
    /\ SimpleCommands' = RegisterSimpleAll(SimpleCommands, cs)
    /\ call' = [op |-> "RegisterSimple", args |-> cs]
    /\ UNCHANGED <<muxState, Prefix, Commands, Middleware, options,
                   fuzzyMatch, commandNames, errorTexts, running>>

(***************************************************************************)
(* InitializeFuzzy, Initialize                                             *)
(***************************************************************************)
\* the orders a range over a Go map (or a sort of equal scores) may produce
Orders(S) == {f \in [1..Cardinality(S) -> S] : \A i, j \in DOMAIN f : i # j => f[i] # f[j]}

InitializeFuzzy ==
    /\ Ready
    /\ fuzzyMatch' = TRUE
    /\ \E ks \in Orders(DOMAIN Commands) :
          /\ Len(commandNames) + Len(ks) <= MaxCandidates
          /\ commandNames' = commandNames \o ks
    /\ UNCHANGED <<muxState, Prefix, Commands, SimpleCommands, Middleware, options,
                   errorTexts, running, call>>

\* mutant: the registered commands are initialised whatever the arguments
InitCallsOfRegistry(cs) ==
    IF Cardinality(DOMAIN Commands) = 0 THEN {<<>>}
    ELSE {[i \in DOMAIN ks |-> Commands[ks[i]]] : ks \in Orders(DOMAIN Commands)}

\* the commands Initialize calls Init on, in call order
InitCalls(cs) ==
    IF Len(cs) = 0 /\ Cardinality(DOMAIN Commands) = 0 THEN {<<>>}
    ELSE IF Len(cs) = 0 THEN {[i \in DOMAIN ks |-> Commands[ks[i]]] : ks \in Orders(DOMAIN Commands)}
    ELSE {cs}

Initialize(cs) ==
    /\ Ready
    /\ \E inits \in InitCalls(cs) :
          call' = [op |-> "Initialize", args |-> cs, inits |-> inits]
    /\ UNCHANGED <<muxState, Prefix, Commands, SimpleCommands, Middleware, options,
                   fuzzyMatch, commandNames, errorTexts, running>>

(***************************************************************************)
(* Handle: the filters and the tokenization                                *)
(***************************************************************************)
MessageTypeDefault == 0

MessageTypeGuildMemberJoin == 7

\* mutant: the bot filter only applies while DMs are ignored too
FilteredBotsWithDMs(msg) ==
    \/ msg.authorID = SelfID
    \/ options.IgnoreEmpty /\ Len(msg.content) = 0
    \/ options.IgnoreNonDefault /\ msg.type # MessageTypeDefault
    \/ options.IgnoreBots /\ options.IgnoreDMs /\ msg.authorBot
    \/ options.IgnoreDMs /\ msg.guildID = ""

\* the early returns before the prefix test
Filtered(msg) ==
    \/ msg.authorID = SelfID
    \/ options.IgnoreEmpty /\ Len(msg.content) = 0
    \/ options.IgnoreNonDefault /\ msg.type # MessageTypeDefault
    \/ options.IgnoreBots /\ msg.authorBot
    \/ options.IgnoreDMs /\ msg.guildID = ""

LacksPrefix(msg) == ~HasPrefix(msg.content, Prefix)

Dropped(msg) == Filtered(msg) \/ LacksPrefix(msg)

Args(msg) == Split(msg.content)

TokenPanics(msg) == SliceFrom1Panics(Args(msg)[1])

CommandOf(msg) == ToLower(SliceFrom1(Args(msg)[1]))

\* the message reaches the two map lookups
Tokenized(msg) == ~Dropped(msg) /\ ~TokenPanics(msg)

ResolvesSimple(msg) == Tokenized(msg) /\ CommandOf(msg) \in DOMAIN SimpleCommands

ResolvesRich(msg) ==
    /\ Tokenized(msg)
    /\ CommandOf(msg) \notin DOMAIN SimpleCommands
    /\ CommandOf(msg) \in DOMAIN Commands

Misses(msg) ==
    /\ Tokenized(msg)
    /\ CommandOf(msg) \notin DOMAIN SimpleCommands
    /\ CommandOf(msg) \notin DOMAIN Commands

(***************************************************************************)
(* What Handle asks of the session and of the runtime, in order.           *)
(***************************************************************************)
Send(ch, text) == [ev |-> "send", chan |-> ch, text |-> text]

MwCall(mw, ctx) == [ev |-> "mw", mw |-> mw, ctx |-> ctx]

Lookup(guild, user) == [ev |-> "lookup", guild |-> guild, user |-> user]

Spawn(handler, ctx) == [ev |-> "spawn", handler |-> handler, ctx |-> ctx]

PlatformErrorText == <<"There was a weird issue. Maybe report it on Github?">>

DidYouMean == "Command not found. Did you mean: \n"

(***************************************************************************)
(* fuzzy.Find of github.com/sahilm/fuzzy: the candidates that hold the     *)
(* pattern's characters in order, letter case ignored, best score first;   *)
(* nothing for the empty pattern.  The scores are not modelled: any order  *)
(* of the matching candidates may come back.                               *)
(***************************************************************************)
RECURSIVE SubseqFold(_, _, _, _)
SubseqFold(p, i, s, j) ==
    IF i > Len(p) THEN TRUE
    ELSE IF j > Len(s) THEN FALSE
    ELSE IF LowerChar(p[i]) = LowerChar(s[j]) THEN SubseqFold(p, i + 1, s, j + 1)
    ELSE SubseqFold(p, i, s, j + 1)

FuzzyFind(pattern, data) ==
    IF Len(pattern) = 0 THEN {<<>>}
    ELSE LET hits == {i \in 1..Len(data) : SubseqFold(pattern, 1, data[i], 1)}
         IN {[k \in DOMAIN o |-> data[o[k]]] : o \in Orders(hits)}

\* the two literals around a suggested name (' stands for the backquote)
ItemOpen == "- '!"

ItemClose == "'\n"

\* the strings.Builder filled by the loop over the matches
RECURSIVE SuggestionLines(_)
SuggestionLines(fz) ==
    IF fz = <<>> THEN <<>>
    ELSE <<ItemOpen>> \o Head(fz) \o <<ItemClose>> \o SuggestionLines(Tail(fz))

\* mutant: only the best suggestion is listed
MissLogBestOnly(msg, fz) ==
    IF fuzzyMatch /\ Len(SuggestionLines(fz)) # 0
    THEN <<Send(msg.channelID, <<DidYouMean>> \o SuggestionLines(<<Head(fz)>>))>>
    ELSE <<Send(msg.channelID, errorTexts.CommandNotFound)>>

\* the exit of a message whose token is in neither map
MissLog(msg, fz) ==
    IF fuzzyMatch /\ Len(SuggestionLines(fz)) # 0
    THEN <<Send(msg.channelID, <<DidYouMean>> \o SuggestionLines(fz))>>
    ELSE <<Send(msg.channelID, errorTexts.CommandNotFound)>>

(***************************************************************************)
(* Handle: the Context, the middlewares and the permission check           *)
(***************************************************************************)
ContextOf(msg) ==
    [Prefix |-> Prefix, Command |-> CommandOf(msg), Arguments |-> Tail(Args(msg)),
     Message |-> msg]

\* the loop over m.Middleware
MiddlewareLog(ctx) == [i \in 1..Len(Middleware) |-> MwCall(Middleware[i], ctx)]

\* mutant: only the role tier is consulted
PermissionLogRolesOnly(handler, ctx, msg, member) ==
    IF member.roles \cap handler.perms.RoleIDs # {} THEN <<Spawn(handler, ctx)>>
    ELSE <<Send(msg.channelID, errorTexts.NoPermissions)>>

\* mutant: no return after the handler is started for a listed user, so the
\* role and channel checks still run
PermissionLogFallThrough(handler, ctx, msg, member) ==
    LET p == handler.perms
        rest == IF member.roles \cap p.RoleIDs # {} THEN <<Spawn(handler, ctx)>>
                ELSE IF msg.channelID \in p.ChanIDs THEN <<Spawn(handler, ctx)>>
                ELSE <<Send(msg.channelID, errorTexts.NoPermissions)>>
    IN IF msg.authorID \in p.UserIDs THEN <<Spawn(handler, ctx)>> \o rest ELSE rest

\* the check once the member is known (member.User.ID is the author's ID: the
\* member was looked up by it)
PermissionLog(handler, ctx, msg, member) ==
    LET p == handler.perms IN
    IF msg.authorID \in p.UserIDs THEN <<Spawn(handler, ctx)>>
    ELSE IF member.roles \cap p.RoleIDs # {} THEN <<Spawn(handler, ctx)>>
    ELSE IF msg.channelID \in p.ChanIDs THEN <<Spawn(handler, ctx)>>
    ELSE <<Send(msg.channelID, errorTexts.NoPermissions)>>

\* mutant: a failed member lookup counts as a member without roles
GateLogErrIsNoRoles(handler, ctx, msg, member) ==
    IF Cardinality(handler.perms.RoleIDs) # 0
    THEN <<Lookup(msg.guildID, msg.authorID)>> \o
         PermissionLog(handler, ctx, msg, [member EXCEPT !.roles = {}])
    ELSE <<Spawn(handler, ctx)>>

\* from handler.Permissions() to the end of Handle
GateLog(handler, ctx, msg, member) ==
    IF Cardinality(handler.perms.RoleIDs) # 0
    THEN <<Lookup(msg.guildID, msg.authorID)>> \o
         (IF member.err
          THEN <<Send(msg.channelID, PlatformErrorText)>>
          ELSE PermissionLog(handler, ctx, msg, member))
    ELSE <<Spawn(handler, ctx)>>

\* mutant: the gate comes first and the middlewares only run for a started handler
RichLogGateFirst(handler, ctx, msg, member) ==
    LET gate == GateLog(handler, ctx, msg, member)
    IN IF gate[Len(gate)].ev = "spawn"
       THEN MiddlewareLog(ctx) \o gate
       ELSE gate

\* a resolved rich command: middlewares first, then the gate
RichLog(handler, ctx, msg, member) ==
    MiddlewareLog(ctx) \o GateLog(handler, ctx, msg, member)

\* mutant: the rich commands are looked up before the simple ones
HandleLogRichFirst(msg, member, fz) ==
    IF Dropped(msg) THEN <<>>
    ELSE IF TokenPanics(msg) THEN <<>>
    ELSE IF CommandOf(msg) \in DOMAIN Commands
         THEN RichLog(Commands[CommandOf(msg)], ContextOf(msg), msg, member)
    ELSE IF CommandOf(msg) \in DOMAIN SimpleCommands
         THEN <<Send(msg.channelID, SimpleCommands[CommandOf(msg)].Content)>>
    ELSE MissLog(msg, fz)

\* everything Handle does for one message, given what the member lookup and
\* fuzzy.Find would return
HandleLog(msg, member, fz) ==
    IF Dropped(msg) THEN <<>>
    ELSE IF TokenPanics(msg) THEN <<>>
    ELSE IF CommandOf(msg) \in DOMAIN SimpleCommands
         THEN <<Send(msg.channelID, SimpleCommands[CommandOf(msg)].Content)>>
    ELSE IF CommandOf(msg) \notin DOMAIN Commands THEN MissLog(msg, fz)
    ELSE RichLog(Commands[CommandOf(msg)], ContextOf(msg), msg, member)

\* what fuzzy.Find may return for the message (nothing when it is not called)
FindResults(msg) ==
    IF Misses(msg) /\ fuzzyMatch THEN FuzzyFind(CommandOf(msg), commandNames) ELSE {<<>>}

Events(log, kind) == SelectSeq(log, LAMBDA e : e.ev = kind)

Spawned(log) == {log[i].handler.name : i \in {j \in DOMAIN log : log[j].ev = "spawn"}}

RunningCount(n) == IF n \in DOMAIN running THEN running[n] ELSE 0

RECURSIVE SumOver(_, _)
SumOver(f, S) ==
    IF S = {} THEN 0
    ELSE LET x == CHOOSE y \in S : TRUE IN f[x] + SumOver(f, S \ {x})

TotalRunning == SumOver(running, DOMAIN running)

\* mutant: the handler is called in place, without "go"
HandlerCalledInPlace == TRUE

\* "go handler.Handle(ctx)": the handler runs as a goroutine of its own and
\* Handle goes on to its return without waiting for it
HandlerBlocksCaller == FALSE

\* mutant: the middleware slice is used up as a queue by the dispatch that runs it
HandleDrainsMiddleware(msg, member) ==
    /\ Ready
    /\ \E fz \in FindResults(msg) :
          LET log == HandleLog(msg, member, fz)
              started == Spawned(log)
          IN /\ started # {} => TotalRunning < MaxRunning
             /\ running' = [n \in DOMAIN running \cup started |->
                               RunningCount(n) + (IF n \in started THEN 1 ELSE 0)]
             /\ muxState' = IF ~Dropped(msg) /\ TokenPanics(msg) THEN "crashed" ELSE "ok"
             /\ Middleware' = IF Len(Events(log, "mw")) # 0 THEN <<>> ELSE Middleware
             /\ call' = [op |-> "Handle", msg |-> msg, member |-> member, fz |-> fz,
                         log |-> log,
                         waiting |-> (started # {} /\ HandlerBlocksCaller)]
    /\ UNCHANGED <<Prefix, Commands, SimpleCommands, options, fuzzyMatch,
                   commandNames, errorTexts>>

Handle(msg, member) ==
    /\ Ready
    /\ \E fz \in FindResults(msg) :
          LET log == HandleLog(msg, member, fz)
              started == Spawned(log)
          IN /\ started # {} => TotalRunning < MaxRunning
             /\ running' = [n \in DOMAIN running \cup started |->
                               RunningCount(n) + (IF n \in started THEN 1 ELSE 0)]
             /\ muxState' = IF ~Dropped(msg) /\ TokenPanics(msg) THEN "crashed" ELSE "ok"
             /\ call' = [op |-> "Handle", msg |-> msg, member |-> member, fz |-> fz,
                         log |-> log,
                         waiting |-> (started # {} /\ HandlerBlocksCaller)]
    /\ UNCHANGED config

\* a handler goroutine runs to its end
HandlerFinish(n) ==
    /\ muxState = "ok"
    /\ RunningCount(n) > 0
    /\ running' = [running EXCEPT ![n] = @ - 1]
    /\ call' = IF call.op = "Handle" /\ call.waiting /\ n \in Spawned(call.log)
               THEN [call EXCEPT !.waiting = FALSE]
               ELSE call
    /\ UNCHANGED <<muxState, config>>

(***************************************************************************)
(* The call returns to its caller.                                         *)
(***************************************************************************)
\* the caller of the current call has control again
Returns ==
    /\ muxState = "ok"
    /\ call.op # "none"
    /\ ~(call.op = "Handle" /\ call.waiting)

Return ==
    /\ Returns
    /\ call' = NoCall
    /\ UNCHANGED <<muxState, Prefix, Commands, SimpleCommands, Middleware, options,
                   fuzzyMatch, commandNames, errorTexts, running>>

\* the argument lists of a variadic call: 1..MaxArgs values of the pool
ArgLists(pool) == UNION {[1..k -> pool] : k \in 1..MaxArgs}

(***************************************************************************)
(* Messages and lookup results of the environment.                         *)
(***************************************************************************)
Msg(a, b, t, g, ch, c) ==
    [authorID |-> a, authorBot |-> b, type |-> t, guildID |-> g, channelID |-> ch,
     content |-> c]

MemberFound(roles) == [err |-> FALSE, roles |-> roles]

MemberError == [err |-> TRUE, roles |-> {}]

\* the member a guild returns for an author who holds no role
MemberNoRoles == MemberFound({})

MemberResults == {MemberError, MemberNoRoles, MemberFound({"r1"}), MemberFound({"r2"})}

\* a message of a human guild member, which no filter drops
GuildMsg(a, ch, c) == Msg(a, FALSE, MessageTypeDefault, "g1", ch, c)

(***************************************************************************)
(* Spec: every operation, every input.  The specifications after it are    *)
(* Spec restricted to some operations and inputs, each small enough to     *)
(* explore in full; a behaviour of any of them is a behaviour of Spec.     *)
(***************************************************************************)
AllNames == {EmptyStr, NameA, NameUpperA, <<"a", "b">>, <<"b">>}

AllContents ==
    {EmptyStr, <<"a">>, <<"!">>, <<"!", "a">>, <<"!", "A">>, <<"!", "b">>,
     <<"!", "a", " ", "b">>}

AllCommands == {Cmd(n, p) : n \in AllNames, p \in PermPool}

AllSimples == {Simple(n, c) : n \in AllNames, c \in {<<"pong">>, <<"hi">>}}

AllMessages ==
    {Msg(a, b, t, g, ch, c) :
        a \in {SelfID} \cup UserPool, b \in BOOLEAN,
        t \in {MessageTypeDefault, MessageTypeGuildMemberJoin},
        g \in {"", "g1"}, ch \in {"c1", "c2"}, c \in AllContents}

Next ==
    \/ \E p \in Prefixes : New(p)
    \/ \E opt \in AllOptions : Options(opt)
    \/ \E mw \in {"mw1", "mw2"} : UseMiddleware(mw)
    \/ \E t \in {DefaultErrorTexts, CustomErrorTexts} : SetErrors(t)
    \/ \E cs \in ArgLists(AllCommands) : Register(cs)
    \/ \E cs \in ArgLists(AllSimples) : RegisterSimple(cs)
    \/ InitializeFuzzy
    \/ \E cs \in {<<>>} \cup ArgLists(AllCommands) : Initialize(cs)
    \/ \E msg \in AllMessages, member \in MemberResults : Handle(msg, member)
    \/ \E n \in AllNames : HandlerFinish(n)
    \/ Return

Spec == Init /\ [][Next]_vars

(***************************************************************************)
(* SpecSetup: construction and registration.                               *)
(***************************************************************************)
SetupCommands == {Cmd(n, p) : n \in {EmptyStr, NameA, NameUpperA}, p \in {Public, RoleOnly}}

SetupSimples == {Simple(n, c) : n \in {EmptyStr, NameA, NameUpperA}, c \in {<<"pong">>, <<"hi">>}}

NextSetup ==
    \/ \E p \in Prefixes : New(p)
    \/ \E cs \in ArgLists(SetupCommands) : Register(cs)
    \/ \E cs \in ArgLists(SetupSimples) : RegisterSimple(cs)
    \/ Return

SpecSetup == Init /\ [][NextSetup]_vars

\* the last entry of an argument list under name n
LastNamed(cs, n) == cs[CHOOSE i \in DOMAIN cs : cs[i].name = n /\ \A j \in DOMAIN cs : cs[j].name = n => j <= i]

LastSimpleNamed(cs, n) == cs[CHOOSE i \in DOMAIN cs : cs[i].Command = n /\ \A j \in DOMAIN cs : cs[j].Command = n => j <= i]

\* C7 (as claimed): New fails for exactly the prefixes whose length is not 1.
C7_PrefixLengthExactlyOne ==
    call.op = "New" => ((muxState = "err") <=> (Len(call.prefix) # 1))

\* C8: a Register (RegisterSimple) call leaves every non-empty name it was given
\* mapped to the last entry given under that name, and leaves every other key of
\* Commands (SimpleCommands) as it was, adding and removing none.
C8_RegistryOverwrite ==
    [][/\ call'.op = "Register" =>
            LET given == {call'.args[i].name : i \in DOMAIN call'.args} \ {EmptyStr}
            IN /\ DOMAIN Commands' = DOMAIN Commands \cup given
               /\ \A n \in given : Commands'[n] = LastNamed(call'.args, n)
               /\ \A n \in DOMAIN Commands \ given : Commands'[n] = Commands[n]
       /\ call'.op = "RegisterSimple" =>
            LET given == {call'.args[i].Command : i \in DOMAIN call'.args} \ {EmptyStr}
            IN /\ DOMAIN SimpleCommands' = DOMAIN SimpleCommands \cup given
               /\ \A n \in given : SimpleCommands'[n] = LastSimpleNamed(call'.args, n)
               /\ \A n \in DOMAIN SimpleCommands \ given :
                     SimpleCommands'[n] = SimpleCommands[n]
      ]_vars

\* C8 witness: one call registered two different commands under one name, and the
\* map holds the second while another name keeps its entry.
C8_Witness ==
    /\ call.op = "Register"
    /\ Len(call.args) = 2
    /\ call.args[1].name = NameA /\ call.args[2].name = NameA
    /\ call.args[1] # call.args[2]
    /\ Commands[NameA] = call.args[2]
    /\ NameUpperA \in DOMAIN Commands


\* C12 (as claimed): no name is a key of both Commands and SimpleCommands.
C12_RegistryDisjoint ==
    DOMAIN Commands \cap DOMAIN SimpleCommands = {}

(***************************************************************************)
(* SpecFilter: the Options and the early returns of Handle.                *)
(***************************************************************************)
FilterCommands == {Cmd(NameA, Public)}

FilterSimples == {Simple(<<"b">>, <<"pong">>)}

FilterMessages ==
    {Msg(a, b, t, g, "c1", c) :
        a \in {SelfID, "u1"}, b \in BOOLEAN,
        t \in {MessageTypeDefault, MessageTypeGuildMemberJoin},
        g \in {"", "g1"},
        c \in {EmptyStr, <<"a">>, <<"!">>, <<"!", "a">>, <<"!", "b">>}}

NextFilter ==
    \/ \E p \in Prefixes : New(p)
    \/ \E opt \in AllOptions : Options(opt)
    \/ UseMiddleware("mw1")
    \/ \E cs \in ArgLists(FilterCommands) : Register(cs)
    \/ \E cs \in ArgLists(FilterSimples) : RegisterSimple(cs)
    \/ \E msg \in FilterMessages : Handle(msg, MemberNoRoles)
    \/ HandlerFinish(NameA)
    \/ Return

SpecFilter == Init /\ [][NextFilter]_vars

\* p is an initial segment of s
StartsWith(s, p) == Len(p) <= Len(s) /\ \A i \in 1..Len(p) : s[i] = p[i]

\* the message is the bot's own, or fails a filter that options enables
FailsAFilter(m) ==
    \/ m.authorID = SelfID
    \/ options.IgnoreEmpty /\ m.content = EmptyStr
    \/ options.IgnoreNonDefault /\ m.type # MessageTypeDefault
    \/ options.IgnoreBots /\ m.authorBot
    \/ options.IgnoreDMs /\ m.guildID = ""

Count(log, kind) == Len(Events(log, kind))

DispatcherTexts ==
    {errorTexts.CommandNotFound, errorTexts.NoPermissions, PlatformErrorText}
    \cup {SimpleCommands[n].Content : n \in DOMAIN SimpleCommands}
    \cup {<<DidYouMean>> \o SuggestionLines(call.fz)}

\* C4 (as claimed): a message that passes the filters and carries the prefix ends
\* in exactly one send to its channel and no handler, or one handler and no send.
C4_SingleTerminalExit ==
    (call.op = "Handle" /\ ~FailsAFilter(call.msg) /\ StartsWith(call.msg.content, Prefix))
        => \/ /\ Count(call.log, "send") = 1
              /\ Count(call.log, "spawn") = 0
              /\ Events(call.log, "send")[1].chan = call.msg.channelID
              /\ Events(call.log, "send")[1].text \in DispatcherTexts
           \/ /\ Count(call.log, "send") = 0
              /\ Count(call.log, "spawn") = 1


\* C17 (as claimed): the empty string is never a key of either map; a Register or
\* RegisterSimple call registers every non-empty name it was given, whatever
\* empty names stand beside it; and a message that fails no filter and consists
\* of the prefix alone ends in the configured not-found text, nothing else.
C17_EmptyNamesSkipped ==
    /\ EmptyStr \notin DOMAIN Commands \cup DOMAIN SimpleCommands
    /\ call.op = "Register" =>
          \A i \in DOMAIN call.args :
             call.args[i].name # EmptyStr => call.args[i].name \in DOMAIN Commands
    /\ call.op = "RegisterSimple" =>
          \A i \in DOMAIN call.args :
             call.args[i].Command # EmptyStr => call.args[i].Command \in DOMAIN SimpleCommands
    /\ (call.op = "Handle" /\ ~FailsAFilter(call.msg) /\ call.msg.content = Prefix) =>
          /\ muxState = "ok"
          /\ call.log = <<Send(call.msg.channelID, errorTexts.CommandNotFound)>>

\* C18 (as claimed): on a Mux that New returned without error, no message makes
\* Handle panic: every call ends with the effects of one of its exits.
C18_NoSlicePanic ==
    call.op = "Handle" =>
        /\ muxState = "ok"
        /\ ~SliceFrom1Panics(Args(call.msg)[1]) \/ Dropped(call.msg)

(***************************************************************************)
(* SpecPerm: resolution and the permission check of Handle.                *)
(***************************************************************************)
PermCommands == {Cmd(NameA, p) : p \in PermPool}

PermSimples == {Simple(NameA, <<"pong">>)}

PermMessages ==
    {GuildMsg(a, ch, c) :
        a \in UserPool, ch \in {"c1", "c2"},
        c \in {<<"!", "a">>, <<"!", "A">>, <<"!", "b">>, <<"!", "a", " ", "b">>}}

NextPerm ==
    \/ \E p \in Prefixes : New(p)
    \/ \E t \in {DefaultErrorTexts, CustomErrorTexts} : SetErrors(t)
    \/ \E cs \in ArgLists(PermCommands) : Register(cs)
    \/ \E cs \in ArgLists(PermSimples) : RegisterSimple(cs)
    \/ \E msg \in PermMessages, member \in MemberResults : Handle(msg, member)
    \/ HandlerFinish(NameA)
    \/ Return

SpecPerm == Init /\ [][NextPerm]_vars

\* the permissions of the rich command the current message resolves to
PermsOfCall == Commands[CommandOf(call.msg)].perms

\* the current call is Handle on a message that resolved to a rich command
RichCall == call.op = "Handle" /\ ResolvesRich(call.msg)

\* C1 (as claimed): a command with any non-empty permission set is denied to an
\* actor who matches none of the three sets: no handler, the no-permission text.
C1_PermissionDenial ==
    (/\ RichCall
     /\ ~call.member.err
     /\ PermsOfCall # Public
     /\ call.msg.authorID \notin PermsOfCall.UserIDs
     /\ call.member.roles \cap PermsOfCall.RoleIDs = {}
     /\ call.msg.channelID \notin PermsOfCall.ChanIDs)
        => /\ Count(call.log, "spawn") = 0
           /\ Events(call.log, "send") = <<Send(call.msg.channelID, errorTexts.NoPermissions)>>

\* C2: with the member found, an actor listed in UserIDs, or holding a role of
\* RoleIDs, or writing in a channel of ChanIDs, or calling a command whose three
\* sets are empty, gets the handler started and no text from the dispatcher.
C2_TiersAreOrGates ==
    (/\ RichCall
     /\ ~call.member.err
     /\ \/ call.msg.authorID \in PermsOfCall.UserIDs
        \/ call.member.roles \cap PermsOfCall.RoleIDs # {}
        \/ call.msg.channelID \in PermsOfCall.ChanIDs
        \/ PermsOfCall = Public)
        => /\ Count(call.log, "send") = 0
           /\ Count(call.log, "spawn") = 1
           /\ Events(call.log, "spawn")[1].handler = Commands[CommandOf(call.msg)]

\* C2 witness: all three sets non-empty, the member looked up and found, and the
\* channel alone matched; the handler was started.
C2_Witness ==
    /\ RichCall
    /\ PermsOfCall = [UserIDs |-> {"u1"}, RoleIDs |-> {"r1"}, ChanIDs |-> {"c1"}]
    /\ call.msg.authorID = "u2" /\ call.member = MemberNoRoles /\ call.msg.channelID = "c1"
    /\ Count(call.log, "lookup") = 1
    /\ Count(call.log, "spawn") = 1

C6_NonBlockingDispatch ==
    (call.op = "Handle" /\ muxState = "ok") => Returns

\* C6 witness: Handle started a handler of "a" and returned while an earlier
\* invocation of the same handler had not finished.
C6_Witness ==
    /\ call.op = "Handle"
    /\ Count(call.log, "spawn") = 1
    /\ RunningCount(NameA) = 2
    /\ Returns

\* C11: when the command a message resolves to has a non-empty RoleIDs and the
\* member lookup fails, Handle makes the lookup, sends the platform-error text to
\* the channel and nothing else, and starts no handler, whoever the author is and
\* whatever the channel.
C11_LookupFailure ==
    (RichCall /\ PermsOfCall.RoleIDs # {} /\ call.member.err)
        => /\ Count(call.log, "lookup") = 1
           /\ Events(call.log, "send") = <<Send(call.msg.channelID, PlatformErrorText)>>
           /\ PlatformErrorText # errorTexts.NoPermissions
           /\ Count(call.log, "spawn") = 0

\* C11 witness: the author is listed in UserIDs and the channel in ChanIDs, the
\* lookup failed, and the call ended in the platform-error text.
C11_Witness ==
    /\ RichCall
    /\ PermsOfCall = [UserIDs |-> {"u1"}, RoleIDs |-> {"r1"}, ChanIDs |-> {"c1"}]
    /\ call.msg.authorID = "u1" /\ call.msg.channelID = "c1"
    /\ call.member = MemberError
    /\ call.log = <<Lookup("g1", "u1"), Send("c1", PlatformErrorText)>>

\* the event is an effect of the dispatch of msg
EffectOf(e, msg) ==
    IF e.ev = "send" THEN e.chan = msg.channelID
    ELSE IF e.ev = "lookup" THEN e.guild = msg.guildID /\ e.user = msg.authorID
    ELSE e.ctx.Message = msg

NameAB == <<"a", "b">>

FuzzyCommands == {Cmd(NameA, Public), Cmd(NameUpperA, Public), Cmd(NameAB, Public)}

FuzzySimples == {Simple(<<"b">>, <<"pong">>)}

FuzzyMessages ==
    {GuildMsg("u1", "c1", c) :
        c \in {<<"!">>, <<"!", "a">>, <<"!", "b">>, <<"!", "A", "b">>, <<"!", "c">>}}

NextFuzzy ==
    \/ \E p \in Prefixes : New(p)
    \/ \E t \in {DefaultErrorTexts, CustomErrorTexts} : SetErrors(t)
    \/ \E cs \in ArgLists(FuzzyCommands) : Register(cs)
    \/ \E cs \in ArgLists(FuzzySimples) : RegisterSimple(cs)
    \/ InitializeFuzzy
    \/ \E msg \in FuzzyMessages : Handle(msg, MemberNoRoles)
    \/ \E n \in {NameA, NameAB} : HandlerFinish(n)
    \/ Return

SpecFuzzy == Init /\ [][NextFuzzy]_vars

\* the names a suggestion list shows, read back from the text after its heading:
\* each item is ItemOpen, the characters of a name, ItemClose
RECURSIVE ListedFrom(_, _, _)
ListedFrom(text, i, cur) ==
    IF i > Len(text) THEN <<>>
    ELSE IF text[i] = ItemOpen THEN ListedFrom(text, i + 1, <<>>)
    ELSE IF text[i] = ItemClose THEN <<cur>> \o ListedFrom(text, i + 1, <<>>)
    ELSE ListedFrom(text, i + 1, Append(cur, text[i]))

ListedNames(text) == ListedFrom(text, 2, <<>>)

\* the message of the current call reached the lookups and its token is a key of
\* neither map
MissCall ==
    /\ call.op = "Handle"
    /\ Tokenized(call.msg)
    /\ CommandOf(call.msg) \notin DOMAIN SimpleCommands \cup DOMAIN Commands

\* C9: a message naming no command gets exactly one text and nothing else: with
\* fuzzy mode on and a non-empty result of the suggester, a list of every returned
\* name in the returned order; otherwise the configured command-not-found text.
C9_FuzzyFallback ==
    MissCall =>
        /\ Len(call.log) = 1
        /\ call.log[1].ev = "send"
        /\ call.log[1].chan = call.msg.channelID
        /\ IF fuzzyMatch /\ call.fz # <<>>
           THEN /\ Head(call.log[1].text) = DidYouMean
                /\ ListedNames(call.log[1].text) = call.fz
           ELSE call.log[1].text = errorTexts.CommandNotFound

\* C9 witness: fuzzy mode on, the suggester returned two names, best first "ab",
\* and the reply lists both in that order.
C9_Witness ==
    /\ MissCall
    /\ fuzzyMatch
    /\ call.fz = <<NameAB, NameUpperA>>
    /\ ListedNames(call.log[1].text) = <<NameAB, NameUpperA>>

\* C9 second case reached: fuzzy mode on, nothing suggested, configured text sent
C9_EmptySuggestions ==
    /\ MissCall
    /\ fuzzyMatch /\ commandNames # <<>> /\ call.fz = <<>>
    /\ errorTexts = CustomErrorTexts
    /\ call.log[1].text = CustomErrorTexts.CommandNotFound

\* the keys of a map that equal the token of the message up to letter case
KeysUpToCase(m, msg) == {n \in DOMAIN m : ToLower(n) = ToLower(SliceFrom1(Args(msg)[1]))}

\* C13 (as claimed): with a one-character prefix, a message whose first token minus
\* the prefix equals a registered name up to letter case is resolved to a command
\* of such a name: the static reply of a simple command so named, or else no
\* not-found reply at all.
C13_CaseInsensitiveNames ==
    (/\ call.op = "Handle"
     /\ Len(Prefix) = 1
     /\ Tokenized(call.msg)
     /\ KeysUpToCase(Commands, call.msg) \cup KeysUpToCase(SimpleCommands, call.msg) # {})
        => IF KeysUpToCase(SimpleCommands, call.msg) # {}
           THEN \E n \in KeysUpToCase(SimpleCommands, call.msg) :
                   call.log = <<Send(call.msg.channelID, SimpleCommands[n].Content)>>
           ELSE call.log # MissLog(call.msg, call.fz)

\* the elements of a slice
Range(s) == {s[i] : i \in DOMAIN s}

\* C14: a step that changes the fuzzy flag or the candidate list leaves the flag
\* on, the candidates equal as a set to the names of Commands at that moment, and
\* Commands as it was; a Register call leaves the flag and the list unchanged.  So
\* Handle only ever suggests names of the list, and a message naming a command
\* registered since is resolved to that command while no reply offers its name.
C14_SnapshotOnEnable ==
    /\ [][/\ (fuzzyMatch' # fuzzyMatch \/ commandNames' # commandNames) =>
                /\ fuzzyMatch'
                /\ Range(commandNames') = DOMAIN Commands
                /\ Commands' = Commands
          /\ call'.op = "Register" /\ call.op = "none" =>
                /\ commandNames' = commandNames
                /\ fuzzyMatch' = fuzzyMatch]_vars
    /\ [](call.op = "Handle" =>
             /\ Range(call.fz) \subseteq Range(commandNames)
             /\ (/\ ResolvesRich(call.msg)
                 /\ CommandOf(call.msg) \notin Range(commandNames))
                   => /\ call.fz = <<>>
                      /\ Count(call.log, "send") = 0
                      /\ Events(call.log, "spawn")[1].handler = Commands[CommandOf(call.msg)])

\* C14 witness: fuzzy mode was enabled with only "a" registered, "ab" was
\* registered afterwards, and a message "!b", which "ab" would match, got the
\* not-found text with no suggestion.
C14_Witness ==
    /\ call.op = "Handle"
    /\ fuzzyMatch
    /\ commandNames = <<NameA>>
    /\ NameAB \in DOMAIN Commands
    /\ call.msg.content = <<"!", "b">> /\ Prefix = <<"!">>
    /\ SubseqFold(CommandOf(call.msg), 1, NameAB, 1)
    /\ call.fz = <<>>
    /\ call.log = <<Send(call.msg.channelID, errorTexts.CommandNotFound)>>

\* C14 second witness: a message "!Ab" was resolved to "ab", registered after the
\* snapshot
C14_ResolvedExactly ==
    /\ call.op = "Handle"
    /\ fuzzyMatch /\ commandNames = <<NameA>>
    /\ call.msg.content = <<"!", "A", "b">>
    /\ Count(call.log, "spawn") = 1

\* no element occurs twice in the sequence
NoRepeat(s) == \A i, j \in DOMAIN s : i # j => s[i] # s[j]

\* C19 (as claimed): the candidate list holds no name twice and only keys of
\* Commands, and no suggestion reply lists a name twice.
C19_CandidatesDistinct ==
    /\ NoRepeat(commandNames)
    /\ Range(commandNames) \subseteq DOMAIN Commands
    /\ call.op = "Handle" => NoRepeat(call.fz)

(***************************************************************************)
(* SpecMw: the middleware chain.                                           *)
(***************************************************************************)
MwCommands == {Cmd(NameA, Public), Cmd(NameA, RoleOnly)}

MwSimples == {Simple(<<"b">>, <<"pong">>)}

MwMessages ==
    {GuildMsg("u1", "c1", c) :
        c \in {<<"a">>, <<"!">>, <<"!", "a">>, <<"!", "b">>, <<"!", "a", " ", "b">>}}

NextMw ==
    \/ \E p \in Prefixes : New(p)
    \/ \E mw \in {"mw1", "mw2"} : UseMiddleware(mw)
    \/ \E cs \in ArgLists(MwCommands) : Register(cs)
    \/ \E cs \in ArgLists(MwSimples) : RegisterSimple(cs)
    \/ \E msg \in MwMessages, member \in MemberResults : Handle(msg, member)
    \/ HandlerFinish(NameA)
    \/ Return

SpecMw == Init /\ [][NextMw]_vars

\* what C10 says of the call that returned last
ChainOfCall ==
    call.op = "Handle" =>
        IF ResolvesRich(call.msg)
        THEN /\ Len(call.log) > Len(Middleware)
             /\ \A i \in 1..Len(Middleware) :
                   /\ call.log[i].ev = "mw"
                   /\ call.log[i].mw = Middleware[i]
                   /\ call.log[i].ctx.Message = call.msg
                   /\ call.log[i].ctx.Command = CommandOf(call.msg)
             /\ \A i \in (Len(Middleware) + 1)..Len(call.log) :
                   /\ call.log[i].ev \in {"lookup", "send", "spawn"}
                   /\ call.log[i].ev = "spawn" /\ Len(Middleware) > 0
                         => call.log[i].ctx = call.log[1].ctx
        ELSE Count(call.log, "mw") = 0

NameB == <<"b">>

InitCommands == {Cmd(NameA, Public), Cmd(NameA, RoleOnly), Cmd(NameB, Public)}

InitSimples == {Simple(NameA, <<"pong">>), Simple(<<"c">>, <<"hi">>)}

NextInit ==
    \/ \E p \in Prefixes : New(p)
    \/ \E cs \in ArgLists(InitCommands) : Register(cs)
    \/ \E cs \in ArgLists(InitSimples) : RegisterSimple(cs)
    \/ \E cs \in {<<>>} \cup ArgLists(InitCommands) : Initialize(cs)
    \/ Return

SpecInit == Init /\ [][NextInit]_vars

\* C15: an Initialize call changes neither map; without arguments its Init calls
\* are one per entry of Commands, each registered command once, in some order
\* (none for an empty registry); with arguments they are the arguments, one call
\* per argument in argument order, whatever is registered.
C15_Initialize ==
    /\ [][call'.op = "Initialize" /\ call.op = "none" =>
             /\ Commands' = Commands
             /\ SimpleCommands' = SimpleCommands]_vars
    /\ [](call.op = "Initialize" =>
             IF call.args = <<>>
             THEN /\ Len(call.inits) = Cardinality(DOMAIN Commands)
                  /\ {call.inits[i] : i \in DOMAIN call.inits} = {Commands[n] : n \in DOMAIN Commands}
             ELSE call.inits = call.args)

\* C15 witness: Initialize without arguments on a registry of two rich commands
\* and a simple command made two Init calls.
C15_Witness ==
    /\ call.op = "Initialize"
    /\ call.args = <<>>
    /\ DOMAIN Commands = {NameA, NameB}
    /\ DOMAIN SimpleCommands # {}
    /\ Len(call.inits) = 2

\* C15 second witness: an explicit list naming an unregistered command twice, next
\* to a registered command that got no Init
C15_ExplicitList ==
    /\ call.op = "Initialize"
    /\ call.args = <<Cmd(NameB, Public), Cmd(NameB, Public)>>
    /\ DOMAIN Commands = {NameA}
    /\ call.inits = call.args

\* C20: a Handle call, whatever its exit, leaves Prefix, both maps, the
\* middleware list, the options, the fuzzy flag, the candidate list and the error
\* texts as they were; and every Context it hands to a middleware or a handler is
\* made of this message alone: the configured prefix, this message's lower-cased
\* token, the words after its first, and the message itself.
C20_NoCrossDispatchState ==
    /\ [][call'.op = "Handle" /\ call.op = "none" =>
             /\ Prefix' = Prefix
             /\ Commands' = Commands
             /\ SimpleCommands' = SimpleCommands
             /\ Middleware' = Middleware
             /\ options' = options
             /\ fuzzyMatch' = fuzzyMatch
             /\ commandNames' = commandNames
             /\ errorTexts' = errorTexts]_vars
    /\ [](call.op = "Handle" =>
             \A i \in DOMAIN call.log :
                call.log[i].ev \in {"mw", "spawn"} =>
                   /\ call.log[i].ctx.Message = call.msg
                   /\ call.log[i].ctx.Prefix = Prefix
                   /\ call.log[i].ctx.Command = ToLower(Tail(Head(Split(call.msg.content))))
                   /\ call.log[i].ctx.Arguments = Tail(Split(call.msg.content)))

\* C20 witness: with the handler of an earlier message still in progress, a
\* message "!a b" went through two middlewares and started the handler, each on
\* a Context holding the one argument "b".
C20_Witness ==
    /\ call.op = "Handle"
    /\ RunningCount(NameA) = 2
    /\ Len(Middleware) = 2
    /\ call.msg.content = <<"!", "a", " ", "b">>
    /\ Len(call.log) = 3
    /\ call.log[3].ev = "spawn"
    /\ call.log[3].ctx.Arguments = <<<<"b">>>>

=============================================================================
